---- MODULE Spec2Model ----
(***************************************************************************)
(* TCP failover proxy (src/TCPFailoverProxy.js).                           *)
(*                                                                         *)
(* A backend object is a record [id, host, port]: host and port are its    *)
(* value, id is its identity.  normalizeBackendHostObject builds a fresh   *)
(* object for every element of the configured array, so two entries with   *)
(* the same host and port are still two objects; the identity of an object *)
(* is named by the index it has in this._backendList when the constructor  *)
(* has normalized and shuffled it.  Array.indexOf compares objects by      *)
(* identity, i.e. by the whole record here.                                *)
(*                                                                         *)
(* Node runs every callback to completion, so each action below is one     *)
(* whole callback: the constructor, the 'listening' event, the accept of   *)
(* an inbound socket, the completion callback of one netSocketConnect.     *)
(* Whether a connection attempt succeeds is the environment's choice.      *)
(***************************************************************************)
EXTENDS Integers, Sequences, FiniteSets

\* ------------------------------------------------------------ bounds
MaxBackends == 3   \* longest configured backend array
MaxConn     == 2   \* inbound connections that arrive

\* ------------------------------------------------------------ program constants
MaxPort == 65535

\* ------------------------------------------------------------ input sets
Hosts      == {"a", "b", "c"}
GoodPorts  == {80}
OptPorts   == {0, 3128, MaxPort + 1}
RawSpecs   == [host : Hosts, port : GoodPorts]
                \cup {[host |-> "", port |-> 80], [host |-> "a", port |-> 0],
                      [host |-> "b", port |-> MaxPort + 1]}
RawArrays  == UNION {[1..n -> RawSpecs] : n \in 0..MaxBackends}
\* opt.backend: absent (null or undefined), or an array
OptBackends == {[given |-> FALSE, arr |-> <<>>]} \cup [given : {TRUE}, arr : RawArrays]
\* the option objects given to the constructor
Opts       == [port : OptPorts, backend : OptBackends, shuffle : BOOLEAN]

NoBackend == [id |-> 0, host |-> "", port |-> 0]
Conns     == 1..MaxConn
Priming   == 0
Probes    == {Priming} \cup Conns

VARIABLES
  phase,        \* "new" | "threw" (the constructor threw) | "constructed"
  server,       \* this._server: "none" | "binding" (listen called) | "listening" | "closed"
  backendList,  \* this._backendList
  probe,        \* per scanAndConnectToValidBackend call: its closure
  sess,         \* per inbound connection: "idle" | "probing" | "routed" | "warned"
  inbound,      \* per inbound socket: "none" | "open" | "piped" | "closed"
  outward,      \* per probe, the socket it connected: "none" | "open" | "piped" | "closed"
  closed,       \* close(): [called, threw, hadServer (this._server was set at the call)]
  initialList,  \* history: the list the constructor left in this._backendList
  rot,          \* a call of _rotateBackendList on its own: list before, target, done
  port,         \* this._port (0 before _processOptObject has stored it)
  handoff,      \* per inbound connection: this._backendList[0] when twoWaySocketPipe was called
  thrown        \* the exception the constructor threw, with the option object given

vars == <<phase, server, backendList, probe, sess, inbound, outward, closed,
          initialList, rot, port, handoff, thrown>>

\* ------------------------------------------------------------ utilities
\* Mutant: the lower limit is tested with >=.
isValidPortFromZero(p) == p >= 0 /\ p <= MaxPort

\* isValidPort(port)
isValidPort(p) == p > 0 /\ p <= MaxPort

\* The (host, port) value of a backend object.
Value(b) == [host |-> b.host, port |-> b.port]
Values(list) == [i \in 1..Len(list) |-> Value(list[i])]

\* Array.prototype.indexOf on objects: first index holding the identical
\* object, 0-based, -1 when absent.
indexOf(list, x) ==
  IF \E i \in 1..Len(list) : list[i] = x
    THEN (CHOOSE i \in 1..Len(list) :
            list[i] = x /\ \A j \in 1..(i - 1) : list[j] # x) - 1
    ELSE -1

\* Array.prototype.slice(from, to), 0-based, to exclusive.
slice(list, from, to) == SubSeq(list, from + 1, to)

\* normalizeBackendHostObject on element i of the array: the {host, port}
\* it returns, or the exception it throws.
normalizeBackendHostObject(raw, i) ==
  LET backend == [host |-> raw.host, port |-> raw.port] IN
  IF Len(backend.host) <= 0
    THEN [ok |-> FALSE, err |-> "Missing host string", at |-> i, backend |-> Value(NoBackend)]
  ELSE IF ~isValidPort(backend.port)
    THEN [ok |-> FALSE, err |-> "Invalid backend port", at |-> i, backend |-> Value(NoBackend)]
  ELSE [ok |-> TRUE, err |-> "", at |-> i, backend |-> backend]

\* The loop of normalizeBackendHostObjectArray, from the last index down to
\* the first: ret holds the results for the indices above i.
RECURSIVE normalizeLoop(_, _, _)
normalizeLoop(backendArr, i, ret) ==
  IF i < 1 THEN [ok |-> TRUE, err |-> "", at |-> 0, list |-> ret]
  ELSE LET r == normalizeBackendHostObject(backendArr[i], i) IN
       IF ~r.ok THEN [ok |-> FALSE, err |-> r.err, at |-> r.at, list |-> <<>>]
       ELSE normalizeLoop(backendArr, i - 1, <<r.backend>> \o ret)

normalizeBackendHostObjectArray(backendArr) ==
  IF ~backendArr.given \/ Len(backendArr.arr) <= 0
    THEN [ok |-> FALSE, err |-> "Missing backend array", at |-> 0, list |-> <<>>]
    ELSE normalizeLoop(backendArr.arr, Len(backendArr.arr), <<>>)

\* _processOptObject: the exception it throws, or the normalized list.
processOptObject(o) ==
  IF ~isValidPort(o.port)
    THEN [ok |-> FALSE, err |-> "Invalid server port", at |-> 0, list |-> <<>>]
    ELSE normalizeBackendHostObjectArray(o.backend)

\* What @js-util/array-shuffle may return: any reordering of the list.
Shuffles(list) ==
  {[i \in 1..Len(list) |-> list[f[i]]] :
     f \in {g \in [1..Len(list) -> 1..Len(list)] :
              \A i, j \in 1..Len(list) : i # j => g[i] # g[j]}}

\* The objects of a list of {host, port}, each named by its index.
Objects(list) ==
  [i \in 1..Len(list) |-> [id |-> i, host |-> list[i].host, port |-> list[i].port]]

\* The lists the constructor may leave in this._backendList for option
\* object o: the normalized array, shuffled if opt.shuffle.
ConstructedLists(o) ==
  LET r == processOptObject(o) IN
  {Objects(l) : l \in (IF o.shuffle THEN Shuffles(r.list) ELSE {r.list})}

\* ------------------------------------------------------------ the program's state as one value
\* Everything a callback can change, so that a callback is a function from
\* the state before it to the state after it.
World ==
  [backendList |-> backendList, sess |-> sess,
   inbound |-> inbound, outward |-> outward, server |-> server, probe |-> probe,
   handoff |-> handoff]

Commit(w) ==
  /\ backendList' = w.backendList
  /\ sess'        = w.sess
  /\ inbound'     = w.inbound
  /\ outward'     = w.outward
  /\ server'      = w.server
  /\ probe'       = w.probe
  /\ handoff'     = w.handoff

NoCall     == [kind |-> "none", backend |-> NoBackend, tried |-> 0]
SocketCall(b) == [kind |-> "socket", backend |-> b, tried |-> 0]
ErrorCall(n)  == [kind |-> "error", backend |-> NoBackend, tried |-> n]

IdleProbe ==
  [started |-> FALSE, callback |-> FALSE, scanPos |-> 0, scanList |-> <<>>,
   inflight |-> NoBackend, cbCount |-> 0, result |-> NoCall, attempts |-> <<>>]

\* ------------------------------------------------------------ rotation
\* Mutant: the two slices concatenated in the wrong order.
rotateConcatSwapped(w, targetHost) ==
  LET list      == w.backendList
      targetIdx == indexOf(list, targetHost)
  IN IF targetIdx <= 0
       THEN w
       ELSE [w EXCEPT !.backendList =
               slice(list, 0, targetIdx) \o slice(list, targetIdx, Len(list))]

\* Mutant: the guard tests targetIdx == 0 only, so a target that is not in
\* the list reaches the slices with -1 (slice(0, -1) is all but the last
\* entry, slice(-1) is the last entry).
rotateNoAbsentCheck(w, targetHost) ==
  LET list      == w.backendList
      n         == Len(list)
      targetIdx == indexOf(list, targetHost)
  IN IF targetIdx = 0 \/ n = 0
       THEN w
       ELSE IF targetIdx < 0
         THEN [w EXCEPT !.backendList = SubSeq(list, n, n) \o SubSeq(list, 1, n - 1)]
         ELSE [w EXCEPT !.backendList =
                 slice(list, targetIdx, n) \o slice(list, 0, targetIdx)]

\* Mutant: the rotated part starts one entry too late and loses the target.
rotateDropsTarget(w, targetHost) ==
  LET list      == w.backendList
      targetIdx == indexOf(list, targetHost)
  IN IF targetIdx <= 0
       THEN w
       ELSE [w EXCEPT !.backendList =
               slice(list, targetIdx + 1, Len(list)) \o slice(list, 0, targetIdx)]

\* Mutant: the front part is cut one entry short.
rotateShortFront(w, targetHost) ==
  LET list      == w.backendList
      targetIdx == indexOf(list, targetHost)
  IN IF targetIdx <= 0
       THEN w
       ELSE [w EXCEPT !.backendList =
               slice(list, targetIdx, Len(list)) \o slice(list, 0, targetIdx - 1)]

\* Mutant: only the target is moved to the front.
rotateMoveToFront(w, targetHost) ==
  LET list      == w.backendList
      targetIdx == indexOf(list, targetHost)
  IN IF targetIdx <= 0
       THEN w
       ELSE [w EXCEPT !.backendList =
               <<targetHost>> \o slice(list, 0, targetIdx)
                 \o slice(list, targetIdx + 1, Len(list))]

\* _rotateBackendList( targetHost )
rotateBackendList(w, targetHost) ==
  LET list      == w.backendList
      targetIdx == indexOf(list, targetHost)
  IN IF targetIdx <= 0
       THEN w
       ELSE LET failedArr == slice(list, 0, targetIdx)
                targetArr == slice(list, targetIdx, Len(list))
            IN [w EXCEPT !.backendList = targetArr \o failedArr]

\* ------------------------------------------------------------ server
\* _serverSetup: net.createServer and server.listen; this._server is set.
serverSetup(w) == [w EXCEPT !.server = "binding"]

\* ------------------------------------------------------------ the callbacks of the two callers
\* Mutant: a probe without a backend is taken as fatal and stops the server.
requestHandlerCallbackFatal(w, c, call) ==
  IF call.kind = "socket"
    THEN LET r == rotateBackendList(w, call.backend) IN
         [r EXCEPT !.inbound[c] = "piped", !.outward[c] = "piped",
                   !.sess[c] = "routed", !.handoff[c] = r.backendList[1]]
    ELSE [w EXCEPT !.sess[c] = "warned", !.server = "closed"]

\* Mutant: the sockets are piped before the list is rotated.
requestHandlerCallbackPipeFirst(w, c, call) ==
  IF call.kind = "socket"
    THEN LET r == [w EXCEPT !.inbound[c] = "piped", !.outward[c] = "piped",
                            !.sess[c] = "routed", !.handoff[c] = w.backendList[1]]
         IN rotateBackendList(r, call.backend)
    ELSE [w EXCEPT !.sess[c] = "warned"]

\* The function _requestHandler passes to scanAndConnectToValidBackend.
requestHandlerCallback(w, c, call) ==
  IF call.kind = "socket"
    THEN LET r == rotateBackendList(w, call.backend) IN
         \* twoWaySocketPipe( inboundSocket, remotesocket )
         [r EXCEPT !.inbound[c] = "piped", !.outward[c] = "piped",
                   !.sess[c] = "routed", !.handoff[c] = r.backendList[1]]
    ELSE \* console.warn only: the inbound socket is not touched
         [w EXCEPT !.sess[c] = "warned"]

\* Mutant: the callback is only called from the branch that got a socket.
setupBackendRouteCallbackOnSuccessOnly(w, call) ==
  IF call.kind = "socket"
    THEN serverSetup(rotateBackendList(w, call.backend))
    ELSE w

\* The function _setupBackendRoute passes to scanAndConnectToValidBackend;
\* its own callback is the constructor's () => self._serverSetup(callback).
setupBackendRouteCallback(w, call) ==
  LET r == IF call.kind = "socket" THEN rotateBackendList(w, call.backend) ELSE w
  IN serverSetup(r)

\* ------------------------------------------------------------ the probe
\* Mutant: callback is cleared before it is tested, so it is never called.
triggerCallbackClearedFirst(w, p, call) ==
  [w EXCEPT !.probe[p].callback = FALSE]

\* triggerCallback(socket, error) of probe p.
triggerCallback(w, p, call) ==
  LET done == [w EXCEPT !.probe[p].callback = FALSE] IN
  IF w.probe[p].callback
    THEN LET told == [done EXCEPT !.probe[p].cbCount = @ + 1,
                                  !.probe[p].result = call]
         IN IF p = Priming THEN setupBackendRouteCallback(told, call)
                           ELSE requestHandlerCallback(told, p, call)
    ELSE done

\* Mutant: the scan reads this._backendList instead of its own copy.
RECURSIVE recursiveScanLive(_, _)
recursiveScanLive(w, p) ==
  LET pr == w.probe[p] IN
  IF pr.scanPos > Len(w.backendList)
    THEN triggerCallback(w, p, ErrorCall(pr.scanPos))
    ELSE LET backend == IF pr.scanPos < Len(w.backendList)
                          THEN w.backendList[pr.scanPos + 1] ELSE NoBackend
             w1 == [w EXCEPT !.probe[p].scanPos = @ + 1]
         IN IF backend = NoBackend
              THEN recursiveScanLive(w1, p)
              ELSE [w1 EXCEPT !.probe[p].inflight = backend]

\* Mutant: the scan does not wait for the callback of netSocketConnect and
\* starts the attempt on the next entry as well.
RECURSIVE recursiveScanTwoAtOnce(_, _)
recursiveScanTwoAtOnce(w, p) ==
  LET pr == w.probe[p] IN
  IF pr.scanPos > Len(pr.scanList)
    THEN triggerCallback(w, p, ErrorCall(pr.scanPos))
    ELSE LET backend == IF pr.scanPos < Len(pr.scanList)
                          THEN pr.scanList[pr.scanPos + 1] ELSE NoBackend
             w1 == [w EXCEPT !.probe[p].scanPos = @ + 1]
         IN IF backend = NoBackend
              THEN recursiveScanTwoAtOnce(w1, p)
              ELSE IF pr.scanPos + 1 < Len(pr.scanList)
                THEN [w1 EXCEPT !.probe[p].scanPos = @ + 1,
                                !.probe[p].inflight = pr.scanList[pr.scanPos + 2]]
                ELSE [w1 EXCEPT !.probe[p].inflight = backend]

\* recursiveScan() of probe p, up to the netSocketConnect call it ends in
\* or the triggerCallback it ends in.  scanList[scanPos] past the end of the
\* array is undefined, which the null test skips.
RECURSIVE recursiveScan(_, _)
recursiveScan(w, p) ==
  LET pr == w.probe[p] IN
  IF pr.scanPos > Len(pr.scanList)
    THEN triggerCallback(w, p, ErrorCall(pr.scanPos))
    ELSE LET backend == IF pr.scanPos < Len(pr.scanList)
                          THEN pr.scanList[pr.scanPos + 1] ELSE NoBackend
             w1 == [w EXCEPT !.probe[p].scanPos = @ + 1]
         IN IF backend = NoBackend
              THEN recursiveScan(w1, p)
              ELSE [w1 EXCEPT !.probe[p].inflight = backend]

\* scanAndConnectToValidBackend(backendArr, callback) as call p.
scanAndConnectToValidBackend(w, p, backendArr) ==
  recursiveScan(
    [w EXCEPT !.probe[p] = [IdleProbe EXCEPT !.started = TRUE, !.callback = TRUE,
                                             !.scanList = slice(backendArr, 0, Len(backendArr))]], p)

\* Mutant: no else, the scan goes on after a successful connection.
connectCallbackNoElse(w, p, ok) ==
  LET backend == w.probe[p].inflight
      w1 == [w EXCEPT !.probe[p].inflight = NoBackend,
                      !.probe[p].attempts = Append(@, [backend |-> backend, ok |-> ok])]
  IN IF ok
       THEN recursiveScan(
              triggerCallback([w1 EXCEPT !.outward[p] = "open"], p, SocketCall(backend)), p)
       ELSE recursiveScan(w1, p)

\* The callback netSocketConnect calls for the attempt in flight of probe p.
connectCallback(w, p, ok) ==
  LET backend == w.probe[p].inflight
      w1 == [w EXCEPT !.probe[p].inflight = NoBackend,
                      !.probe[p].attempts = Append(@, [backend |-> backend, ok |-> ok])]
  IN IF ok
       THEN triggerCallback([w1 EXCEPT !.outward[p] = "open"], p, SocketCall(backend))
       ELSE recursiveScan(w1, p)

\* _requestHandler( inboundSocket ) for inbound connection c.
requestHandler(w, c) ==
  scanAndConnectToValidBackend(w, c, w.backendList)

\* _setupBackendRoute( callback )
setupBackendRoute(w) ==
  scanAndConnectToValidBackend(w, Priming, w.backendList)

\* Mutant: _serverSetup is called right away instead of from the callback.
constructorEagerListen(w, list) ==
  serverSetup(setupBackendRoute([w EXCEPT !.backendList = list]))

\* The constructor after _processOptObject and the shuffle have produced
\* list: self._setupBackendRoute(() => { self._serverSetup(callback) }).
constructor(w, list) ==
  setupBackendRoute([w EXCEPT !.backendList = list])

\* close(): the identifier callback is not a parameter of close() nor
\* declared anywhere in the module, so evaluating it throws a ReferenceError
\* before server.close is called and before this._server is cleared.
CallbackInScope == FALSE

close(w) ==
  IF w.server \in {"binding", "listening"}
    THEN IF CallbackInScope
           THEN [threw |-> FALSE, w |-> [w EXCEPT !.server = "closed"]]
           ELSE [threw |-> TRUE, w |-> w]
    ELSE [threw |-> ~CallbackInScope, w |-> w]

\* ------------------------------------------------------------ initial state
NoRot == [before |-> <<>>, target |-> NoBackend, done |-> FALSE]
NotThrown ==
  [opt |-> [port |-> 0, backend |-> [given |-> FALSE, arr |-> <<>>], shuffle |-> FALSE],
   err |-> "", at |-> 0]
NotClosed == [called |-> FALSE, threw |-> FALSE, hadServer |-> FALSE]

Init ==
  /\ phase = "new"
  /\ server = "none"
  /\ backendList = <<>>
  /\ probe = [p \in Probes |-> IdleProbe]
  /\ sess = [c \in Conns |-> "idle"]
  /\ inbound = [c \in Conns |-> "none"]
  /\ outward = [p \in Probes |-> "none"]
  /\ closed = NotClosed
  /\ initialList = <<>>
  /\ rot = NoRot
  /\ port = 0
  /\ handoff = [c \in Conns |-> NoBackend]
  /\ thrown = NotThrown

\* ------------------------------------------------------------ actions
\* new TCPFailoverProxy(opt) with an option object _processOptObject rejects.
ConstructThrows ==
  /\ phase = "new"
  /\ \E o \in Opts :
       /\ ~processOptObject(o).ok
       /\ thrown' = [opt |-> o, err |-> processOptObject(o).err,
                     at |-> processOptObject(o).at]
  /\ phase' = "threw"
  /\ UNCHANGED <<server, backendList, probe, sess, inbound, outward, closed,
                 initialList, rot, port, handoff>>

\* new TCPFailoverProxy(opt) with a valid option object.
Construct ==
  /\ phase = "new"
  /\ \E o \in Opts :
       /\ processOptObject(o).ok
       /\ port' = o.port
       /\ \E list \in ConstructedLists(o) :
            /\ initialList' = list
            /\ Commit(constructor(World, list))
  /\ phase' = "constructed"
  /\ UNCHANGED <<closed, rot, thrown>>

\* The server's 'listening' event.
Listening ==
  /\ server = "binding"
  /\ server' = "listening"
  /\ UNCHANGED <<phase, backendList, probe, sess, inbound, outward, closed,
                 initialList, rot, port, handoff, thrown>>

\* The listening server accepts inbound connection c and calls
\* self._requestHandler(inboundSocket).
Accept(c) ==
  /\ server = "listening"
  /\ sess[c] = "idle"
  /\ \A d \in Conns : d < c => sess[d] # "idle"
  /\ Commit(requestHandler([World EXCEPT !.sess[c] = "probing",
                                         !.inbound[c] = "open"], c))
  /\ UNCHANGED <<phase, closed, initialList, rot, port, thrown>>

\* netSocketConnect reports a socket for the attempt of probe p.
ConnectSuccess(p) ==
  /\ probe[p].inflight # NoBackend
  /\ Commit(connectCallback(World, p, TRUE))
  /\ UNCHANGED <<phase, closed, initialList, rot, port, thrown>>

\* netSocketConnect reports an error or a timeout for the attempt of probe p.
ConnectFail(p) ==
  /\ probe[p].inflight # NoBackend
  /\ Commit(connectCallback(World, p, FALSE))
  /\ UNCHANGED <<phase, closed, initialList, rot, port, thrown>>

\* The owner of the proxy calls close(), once.
Close ==
  /\ phase = "constructed"
  /\ ~closed.called
  /\ closed' = [called |-> TRUE, threw |-> close(World).threw,
                hadServer |-> server \in {"binding", "listening"}]
  /\ Commit(close(World).w)
  /\ UNCHANGED <<phase, initialList, rot, port, thrown>>

Next ==
  \/ ConstructThrows
  \/ Construct
  \/ Listening
  \/ \E c \in Conns : Accept(c)
  \/ \E p \in Probes : ConnectSuccess(p)
  \/ \E p \in Probes : ConnectFail(p)
  \/ Close

Spec == Init /\ [][Next]_vars

\* netSocketConnect calls back for every attempt (it enforces connectTimeout),
\* and the server that was told to listen emits 'listening'.
ConnectDone(p) == ConnectSuccess(p) \/ ConnectFail(p)

FairSpec ==
  /\ Spec
  /\ \A p \in Probes : WF_vars(ConnectDone(p))
  /\ WF_vars(Listening)

\* ------------------------------------------------------------ _rotateBackendList on its own
\* The lists this._backendList can hold: the objects of a valid array, in
\* any order.
BackendLists ==
  UNION {Shuffles(Objects(l)) :
           l \in UNION {[1..n -> [host : Hosts, port : GoodPorts]] : n \in 1..MaxBackends}}

\* The objects rotate can be given: the entries of such lists, and objects
\* that are in no list (another identity with the same host and port).
Targets == [id : 1..(MaxBackends + 1), host : Hosts, port : GoodPorts]

RotInit ==
  /\ phase = "constructed"
  /\ server = "listening"
  /\ backendList \in BackendLists
  /\ probe = [p \in Probes |-> IdleProbe]
  /\ sess = [c \in Conns |-> "idle"]
  /\ inbound = [c \in Conns |-> "none"]
  /\ outward = [p \in Probes |-> "none"]
  /\ closed = NotClosed
  /\ initialList = backendList
  /\ port \in {p \in OptPorts : isValidPort(p)}
  /\ handoff = [c \in Conns |-> NoBackend]
  /\ thrown = NotThrown
  /\ \E t \in Targets : rot = [before |-> backendList, target |-> t, done |-> FALSE]

\* this._rotateBackendList( rot.target )
RotateCall ==
  /\ ~rot.done
  /\ Commit(rotateBackendList(World, rot.target))
  /\ rot' = [rot EXCEPT !.done = TRUE]
  /\ UNCHANGED <<phase, closed, initialList, port, thrown>>

RotNext == RotateCall

SpecRotate == RotInit /\ [][RotNext]_vars

\* ------------------------------------------------------------ properties
Min(S) == CHOOSE x \in S : \A y \in S : x <= y

NoDuplicates(seq) ==
  \A i, j \in 1..Len(seq) : i # j => seq[i] # seq[j]

\* Probe p is completed by this step with a socket.
Succeeds(p) == probe[p].result.kind = "none" /\ probe'[p].result.kind = "socket"

\* Rotation with the target looked up by (host, port): the first entry of
\* vals equal to v is moved to the front together with all that follow it.
RotateByValue(vals, v) ==
  LET hits == {i \in 1..Len(vals) : vals[i] = v} IN
  IF hits = {} \/ Min(hits) = 1
    THEN vals
    ELSE SubSeq(vals, Min(hits), Len(vals)) \o SubSeq(vals, 1, Min(hits) - 1)

\* C1: a probe attempts the entries of its list in list order from index 0,
\* every attempt before the last one failed, the attempt in flight is the
\* next entry, and a probe that got a socket got it from its last attempt:
\* it returns that entry, and nothing after it is in flight or attempted.
C1_ProbeInOrderFirstReachable ==
  \A p \in Probes :
    LET pr == probe[p]
        k  == Len(pr.attempts)
    IN /\ k <= Len(pr.scanList)
       /\ \A i \in 1..k : pr.attempts[i].backend = pr.scanList[i]
       /\ \A i \in 1..(k - 1) : ~pr.attempts[i].ok
       /\ pr.inflight # NoBackend =>
            /\ k < Len(pr.scanList)
            /\ pr.inflight = pr.scanList[k + 1]
            /\ pr.result.kind = "none"
            /\ \A i \in 1..k : ~pr.attempts[i].ok
       /\ (k >= 1 /\ pr.attempts[k].ok) =>
            /\ pr.result = SocketCall(pr.scanList[k])
            /\ pr.inflight = NoBackend
       /\ pr.result.kind = "socket" => (k >= 1 /\ pr.attempts[k].ok)

\* [A(down), B(up), C]: the probe returned B after two attempts.
C1_Witness ==
  \E p \in Probes :
    /\ Len(probe[p].scanList) = 3
    /\ Len(probe[p].attempts) = 2
    /\ ~probe[p].attempts[1].ok
    /\ probe[p].result = SocketCall(probe[p].scanList[2])

\* C2: a probe that found every entry of a list of length N unreachable has
\* made exactly N attempts, one per entry in order, and reports N attempts.
C2_ExhaustedReportsListLength ==
  \A p \in Probes :
    probe[p].result.kind = "error" =>
      /\ Len(probe[p].attempts) = Len(probe[p].scanList)
      /\ \A i \in 1..Len(probe[p].attempts) :
           probe[p].attempts[i] = [backend |-> probe[p].scanList[i], ok |-> FALSE]
      /\ probe[p].result.tried = Len(probe[p].scanList)

\* C3: an inbound connection whose probe ended without a backend is closed.
C3_ExhaustedClosesInbound ==
  \A c \in Conns :
    probe[c].result.kind = "error" => inbound[c] = "closed"

\* C4: the completion callback of a probe is never called twice, and it has
\* been called once the probe has connected or has failed on every entry.
C4_CallbackExactlyOnce ==
  \A p \in Probes :
    LET pr == probe[p]
        k  == Len(pr.attempts)
    IN /\ pr.cbCount <= 1
       /\ (k >= 1 /\ pr.attempts[k].ok) => pr.cbCount = 1
       /\ (pr.started /\ k = Len(pr.scanList) /\ pr.inflight = NoBackend) => pr.cbCount = 1
       /\ pr.cbCount = 1 <=> pr.result.kind # "none"

\* A probe that failed twice before it connected has called back once.
C4_Witness ==
  \E p \in Probes :
    /\ Len(probe[p].attempts) = 3
    /\ probe[p].attempts[3].ok
    /\ probe[p].cbCount = 1

\* C5: rotate(target) with target at index idx > 0 leaves list[idx..end)
\* followed by list[0..idx): entry i of the result is entry (i + idx) mod n
\* of the list before.
C5_RotateFromTarget ==
  rot.done =>
    \A idx \in 1..(Len(rot.before) - 1) :
      rot.before[idx + 1] = rot.target =>
        /\ Len(backendList) = Len(rot.before)
        /\ \A i \in 1..Len(rot.before) :
             backendList[i] = rot.before[((i - 1 + idx) % Len(rot.before)) + 1]

\* rotate(B) on [A, B, C] has given [B, C, A].
C5_Witness ==
  /\ rot.done
  /\ Len(rot.before) = 3
  /\ rot.target = rot.before[2]
  /\ backendList = <<rot.before[2], rot.before[3], rot.before[1]>>

\* C6: rotate(target) leaves the list as it was when target is at index 0
\* or is not in the list.
C6_RotateNoOp ==
  (rot.done /\ (rot.before[1] = rot.target
                  \/ \A i \in 1..Len(rot.before) : rot.before[i] # rot.target))
    => backendList = rot.before

\* rotate(X) was called on a list of three entries that does not hold X.
C6_Witness ==
  /\ rot.done
  /\ Len(rot.before) = 3
  /\ \A i \in 1..3 : rot.before[i] # rot.target
  /\ backendList = rot.before

\* C7 as stated: at every rotation, any entry of the list with the target's
\* host and port, given as the target, produces the same sequence of
\* (host, port) values.
C7_RotationByValue ==
  [][\A p \in Probes :
       Succeeds(p) =>
         \A i \in 1..Len(backendList) :
           Value(backendList[i]) = Value(probe'[p].result.backend) =>
             Values(rotateBackendList(World, backendList[i]).backendList)
               = Values(backendList')]_vars

\* C7 as amended: the lookup is by identity; on a list in which no two
\* entries have the same host and port the rotation is the one a lookup by
\* (host, port) produces.
C7_RotationByValueIfDistinct ==
  [][\A p \in Probes :
       (Succeeds(p) /\ NoDuplicates(Values(backendList))) =>
         Values(backendList')
           = RotateByValue(Values(backendList), Value(probe'[p].result.backend))]_vars

\* A probe connected to a later entry of a list of three entries with three
\* different values and the rotation has put it first.
C7_Witness ==
  \E p \in Probes :
    /\ probe[p].result.kind = "socket"
    /\ Len(probe[p].attempts) >= 2
    /\ Len(backendList) >= 3
    /\ NoDuplicates(Values(backendList))
    /\ backendList[1] = probe[p].result.backend
    /\ backendList # initialList

\* C8: the list is always a permutation of the list the proxy started with.
C8_ListIsPermutation ==
  phase = "constructed" =>
    /\ Len(backendList) = Len(initialList)
    /\ \A i \in 1..Len(initialList) :
         Cardinality({j \in 1..Len(backendList) : backendList[j] = initialList[i]}) = 1

\* Two inbound connections probed the same snapshot at the same time, found
\* different backends and both rotated.
C8_Witness ==
  /\ MaxConn >= 2
  /\ sess[1] = "routed" /\ sess[2] = "routed"
  /\ probe[1].scanList = probe[2].scanList
  /\ probe[1].result.backend # probe[2].result.backend
  /\ Len(probe[1].attempts) >= 2 /\ Len(probe[2].attempts) >= 2

\* C9: once close() has been called on a proxy that has its server, no
\* further inbound connection is accepted, and every routed session stays
\* routed.
C9_NoAcceptAfterClose ==
  [][(closed.called /\ closed.hadServer) =>
       \A c \in Conns :
         /\ sess[c] = "idle" => sess'[c] = "idle"
         /\ sess[c] = "routed" => sess'[c] = "routed"]_vars

\* C10: the server is not set up, and no inbound connection is handled,
\* before the priming probe has called back.
C10_PrimingBeforeListen ==
  (server # "none" \/ \E c \in Conns : sess[c] # "idle")
    => probe[Priming].cbCount = 1

\* An inbound connection is being probed after a priming probe that needed
\* two attempts.
C10_Witness ==
  /\ \E c \in Conns : sess[c] = "probing"
  /\ Len(probe[Priming].attempts) >= 2
  /\ probe[Priming].cbCount = 1

\* C11: a constructed proxy gets to listen whether the priming probe found
\* a backend or not; a priming probe that found none leaves the list as it
\* was and sets the server up, and the first connection accepted after it
\* starts a probe of its own over the list, from its first entry.
C11_StartsWithoutBackend ==
  /\ [][(probe[Priming].result.kind = "none" /\ probe'[Priming].result.kind = "error")
          => (backendList' = backendList /\ backendList' = initialList
                /\ server' = "binding")]_vars
  /\ [][(probe[Priming].result.kind = "error" /\ sess[1] = "idle" /\ sess'[1] # "idle")
          => (/\ probe'[1].started
              /\ probe'[1].scanList = backendList
              /\ probe'[1].inflight = backendList[1]
              /\ probe'[1].attempts = <<>>)]_vars
  /\ (phase = "constructed") ~> (server = "listening")

\* The proxy listens after a priming probe that found no backend, and the
\* first inbound connection is being probed.
C11_Witness ==
  /\ probe[Priming].result.kind = "error"
  /\ Len(probe[Priming].attempts) >= 2
  /\ server = "listening"
  /\ sess[1] = "probing"
  /\ probe[1].inflight = backendList[1]

\* An option object the constructor has to reject: listen port outside
\* 1..65535, backend absent or empty, or a backend with an empty host or a
\* port outside 1..65535.
BadSpec(raw) == raw.host = "" \/ raw.port < 1 \/ raw.port > 65535

InvalidOpt(o) ==
  \/ o.port < 1 \/ o.port > 65535
  \/ ~o.backend.given
  \/ o.backend.arr = <<>>
  \/ \E i \in 1..Len(o.backend.arr) : BadSpec(o.backend.arr[i])

\* C12: a constructor that threw was given an invalid option object and has
\* started no probe, connected nothing and set up no server; a proxy that
\* was constructed holds a valid listen port and a non-empty list of valid
\* backends, so no invalid option object gets past the constructor.
C12_InvalidConfigFailsFirst ==
  /\ phase = "threw" =>
       /\ InvalidOpt(thrown.opt)
       /\ server = "none"
       /\ backendList = <<>>
       /\ \A p \in Probes :
            /\ ~probe[p].started
            /\ probe[p].inflight = NoBackend
            /\ probe[p].attempts = <<>>
            /\ outward[p] = "none"
  /\ phase = "new" => (server = "none" /\ \A p \in Probes : ~probe[p].started)
  /\ phase = "constructed" =>
       /\ port >= 1 /\ port <= 65535
       /\ Len(initialList) >= 1
       /\ \A i \in 1..Len(initialList) : ~BadSpec(initialList[i])

\* The constructor threw on a valid listen port and an array whose second
\* element has port 0.
C12_Witness ==
  /\ phase = "threw"
  /\ thrown.opt.port = 3128
  /\ Len(thrown.opt.backend.arr) = 2
  /\ thrown.opt.backend.arr[2].port = 0
  /\ ~BadSpec(thrown.opt.backend.arr[1])

\* C13: when elements of the backend array are invalid, the exception is
\* the one of the invalid element with the lowest index.
C13_FirstInvalidError ==
  (phase = "threw" /\ thrown.at > 0) =>
    /\ BadSpec(thrown.opt.backend.arr[thrown.at])
    /\ \A i \in 1..(thrown.at - 1) : ~BadSpec(thrown.opt.backend.arr[i])

\* Probe p is completed by this step without a backend.
Exhausts(p) == probe[p].result.kind = "none" /\ probe'[p].result.kind = "error"

\* C14: the step in which the probe of one inbound connection ends without
\* a backend leaves the list and the server as they were and changes nothing
\* of any other connection or probe.
C14_ExhaustionIsLocal ==
  [][\A c \in Conns :
       Exhausts(c) =>
         /\ backendList' = backendList
         /\ server' = server
         /\ server' = "listening"
         /\ \A d \in Conns \ {c} :
              /\ sess'[d] = sess[d]
              /\ inbound'[d] = inbound[d]
              /\ handoff'[d] = handoff[d]
         /\ \A q \in Probes \ {c} :
              /\ probe'[q] = probe[q]
              /\ outward'[q] = outward[q]]_vars

\* The first connection was not routed while the second is still probing a
\* later entry.
C14_Witness ==
  /\ MaxConn >= 2
  /\ sess[1] = "warned"
  /\ sess[2] = "probing"
  /\ Len(probe[2].attempts) >= 1
  /\ server = "listening"

\* C15: the list a probe scans is the list as it was when the probe was
\* called and never changes afterwards, and what the probe has attempted and
\* is attempting is a prefix of it, whatever the list has become since.
C15_ProbeKeepsSnapshot ==
  /\ [][\A p \in Probes :
          /\ (~probe[p].started /\ probe'[p].started) =>
               probe'[p].scanList = (IF p = Priming THEN initialList' ELSE backendList)
          /\ probe[p].started => probe'[p].scanList = probe[p].scanList]_vars
  /\ [](\A p \in Probes :
          /\ \A i \in 1..Len(probe[p].attempts) :
               probe[p].attempts[i].backend = probe[p].scanList[i]
          /\ probe[p].inflight # NoBackend =>
               probe[p].inflight = probe[p].scanList[Len(probe[p].attempts) + 1])

\* A probe is attempting the third entry of its snapshot although the list
\* has been rotated since it started.
C15_Witness ==
  \E c \in Conns :
    /\ probe[c].inflight # NoBackend
    /\ Len(probe[c].attempts) = 2
    /\ probe[c].scanList # backendList
    /\ probe[c].inflight # backendList[3]

\* The attempts probe p has started: one per entry its scan position has
\* passed.
Started(p) ==
  IF probe[p].scanPos <= Len(probe[p].scanList)
    THEN probe[p].scanPos ELSE Len(probe[p].scanList)

\* C16: of the attempts a probe has started at most one has not reported
\* yet, and while one is outstanding every earlier one has failed.
C16_OneAttemptInFlight ==
  \A p \in Probes :
    /\ Started(p) - Len(probe[p].attempts) \in {0, 1}
    /\ Started(p) - Len(probe[p].attempts) = 1 <=> probe[p].inflight # NoBackend
    /\ probe[p].inflight # NoBackend =>
         \A i \in 1..Len(probe[p].attempts) : ~probe[p].attempts[i].ok

\* The probes of two inbound connections each have an attempt in flight.
C16_Witness ==
  /\ MaxConn >= 2
  /\ probe[1].inflight # NoBackend
  /\ probe[2].inflight # NoBackend
  /\ Len(probe[1].attempts) >= 1

\* C17: a connection is handed to the relay in the callback that got the
\* socket, and when twoWaySocketPipe is called the backend of that socket is
\* the first entry of the list.
C17_ConnectedBackendFirstAtHandoff ==
  \A c \in Conns :
    /\ probe[c].result.kind = "socket" <=> sess[c] = "routed"
    /\ sess[c] = "routed" =>
         /\ handoff[c] = probe[c].result.backend
         /\ inbound[c] = "piped" /\ outward[c] = "piped"
    /\ sess[c] # "routed" => handoff[c] = NoBackend

\* Two connections probed the same snapshot; the second one connected to a
\* later entry after the first one had rotated the list.
C17_Witness ==
  /\ MaxConn >= 2
  /\ sess[1] = "routed" /\ sess[2] = "routed"
  /\ probe[1].scanList = probe[2].scanList
  /\ handoff[1] # handoff[2]
  /\ backendList[1] = handoff[2]
  /\ Len(probe[1].attempts) = 2 /\ Len(probe[2].attempts) = 3

\* The states of an inbound connection once its probe is over: ROUTED is
\* relaying, DROPPED is given up with the inbound connection closed.
Routed(c)  == sess[c] = "routed"
Dropped(c) == sess[c] = "warned" /\ inbound[c] = "closed"

\* C18: a probe makes at most as many attempts as its list has entries and
\* attempts no entry twice, and every inbound connection that is being
\* probed is ROUTED or DROPPED in the end.
C18_ProbeTerminates ==
  /\ [](\A p \in Probes :
          /\ Len(probe[p].attempts) <= Len(probe[p].scanList)
          /\ \A i, j \in 1..Len(probe[p].attempts) :
               i # j => probe[p].attempts[i].backend # probe[p].attempts[j].backend)
  /\ \A c \in Conns : (sess[c] = "probing") ~> (Routed(c) \/ Dropped(c))

\* C19: the list is the initial list, rotated: entry i is entry i + k of the
\* initial list for one k, counting cyclically.
C19_CyclicRotation ==
  phase = "constructed" =>
    /\ Len(backendList) = Len(initialList)
    /\ \E k \in 0..(Len(initialList) - 1) :
         \A i \in 1..Len(initialList) :
           backendList[i] = initialList[((i - 1 + k) % Len(initialList)) + 1]

\* The list has been rotated by two connections and now starts at the third
\* entry of the initial list.
C19_Witness ==
  /\ MaxConn >= 2
  /\ sess[1] = "routed" /\ sess[2] = "routed"
  /\ probe[1].scanList # probe[2].scanList
  /\ Len(initialList) = 3
  /\ backendList = <<initialList[3], initialList[1], initialList[2]>>

\* C20: the socket of a probe that connected is handed to the relay or
\* closed; the priming probe's socket is closed.
C20_OutwardSocketOwned ==
  /\ \A c \in Conns : probe[c].result.kind = "socket" => outward[c] \in {"piped", "closed"}
  /\ probe[Priming].result.kind = "socket" => outward[Priming] = "closed"

====
